---- MODULE Spec2Model ----
(***************************************************************************)
(* Model of internal/httpstodns/server.go: the DNS-over-HTTPS handler      *)
(* Server.Resolve, its query parser parseQuery and the helpers             *)
(* stringToRRType and stringToBool.                                        *)
(*                                                                         *)
(* Go strings are modelled as sequences of one-character strings, so that  *)
(* len(), indexing, strings.ToUpper/ToLower, strconv.ParseInt and          *)
(* net.ParseCIDR are computed character by character.                      *)
(***************************************************************************)
EXTENDS Integers, Sequences, FiniteSets, TLC

VARIABLES
    pc,         \* per request: position of the Resolve invocation
    url,        \* per request: req.URL's query, key -> list of values
    r,          \* per request: the *dns.Msg handed to dns.Exchange (<<>> = none)
    fromUp,     \* per request: the handler's fromUp, err after dns.Exchange
    net,        \* per request: what the upstream exchange produced for it
    w,          \* per request: the http.ResponseWriter, the sequence of writes
    exchanges,  \* per request: number of dns.Exchange calls made
    badJSON,    \* the responses json.Marshal fails on (fixed at start)
    pu,         \* parser harness: the query handed to parseQuery
    pres        \* parser harness: what parseQuery returned (<<>> = not yet)

vars == <<pc, url, r, fromUp, net, w, exchanges, badJSON, pu, pres>>

(***************************************************************************)
(* Bounds of the model.                                                    *)
(***************************************************************************)
NumReq == 2
MaxProbe == 65600
ExtraNameLen == 2
MaxAns == 2

(***************************************************************************)
(* Program constants.                                                      *)
(***************************************************************************)
MaxNameLen == 253
DefaultRRType == 1
IntBitSize == 16
MinRRType == 1
MaxRRType == 65535
StatusOK == 200
StatusBadRequest == 400
StatusFailedDependency == 424
StatusRequestTimeout == 408
StatusInternalServerError == 500
FamilyIPv4 == 1
FamilyIPv6 == 2
TypeOPT == 41
EDNS0SUBNET == 8
ClassINET == 1

errEmptyName == "empty name"
errNameTooLong == "name too long"
errInvalidSubnet == "invalid edns_client_subnet"
errIntOutOfRange == "invalid type (int out of range)"
errUnknownType == "invalid type (unknown string type)"
errInvalidCD == "invalid cd value"
NoErr == "nil"

(***************************************************************************)
(* Characters and strings.                                                 *)
(***************************************************************************)
Digits == <<"0","1","2","3","4","5","6","7","8","9">>
LowerLetters == <<"a","b","c","d","e","f","g","h","i","j","k","l","m",
                  "n","o","p","q","r","s","t","u","v","w","x","y","z">>
UpperLetters == <<"A","B","C","D","E","F","G","H","I","J","K","L","M",
                  "N","O","P","Q","R","S","T","U","V","W","X","Y","Z">>

IsDigit(c) == \E d \in 1..10 : Digits[d] = c
DigitVal(c) == (CHOOSE d \in 1..10 : Digits[d] = c) - 1

ToUpperCh(c) ==
    IF \E k \in 1..26 : LowerLetters[k] = c
    THEN UpperLetters[CHOOSE k \in 1..26 : LowerLetters[k] = c]
    ELSE c
ToLowerCh(c) ==
    IF \E k \in 1..26 : UpperLetters[k] = c
    THEN LowerLetters[CHOOSE k \in 1..26 : UpperLetters[k] = c]
    ELSE c
ToUpper(s) == [k \in 1..Len(s) |-> ToUpperCh(s[k])]
ToLower(s) == [k \in 1..Len(s) |-> ToLowerCh(s[k])]

RECURSIVE Pow2(_)
Pow2(n) == IF n = 0 THEN 1 ELSE 2 * Pow2(n - 1)

AllDigits(s) == \A k \in 1..Len(s) : IsDigit(s[k])

\* value of a digit string, most significant digit first
RECURSIVE DecVal(_)
DecVal(s) ==
    IF Len(s) = 0 THEN 0
    ELSE 10 * DecVal(SubSeq(s, 1, Len(s) - 1)) + DigitVal(s[Len(s)])

\* strconv.Itoa for n >= 0
RECURSIVE Itoa(_)
Itoa(n) ==
    IF n < 10 THEN <<Digits[n + 1]>>
    ELSE Append(Itoa(n \div 10), Digits[(n % 10) + 1])

Rep(c, n) == [k \in 1..n |-> c]

(***************************************************************************)
(* strconv.ParseInt(s, 10, bitSize): optional sign, then decimal digits;   *)
(* a value that does not fit a signed bitSize-bit integer is a range       *)
(* error.  Result: [i, err] with err one of "nil", "syntax", "range".      *)
(***************************************************************************)
ParseInt(s, bitSize) ==
    LET signed == Len(s) > 0 /\ s[1] \in {"+", "-"}
        neg    == Len(s) > 0 /\ s[1] = "-"
        body   == IF signed THEN SubSeq(s, 2, Len(s)) ELSE s
        cutoff == Pow2(bitSize - 1)
    IN  IF Len(body) = 0 \/ ~AllDigits(body)
        THEN [i |-> 0, err |-> "syntax"]
        ELSE LET un == DecVal(body)
             IN  IF ~neg /\ un >= cutoff THEN [i |-> cutoff - 1, err |-> "range"]
                 ELSE IF neg /\ un > cutoff THEN [i |-> 0 - cutoff, err |-> "range"]
                 ELSE [i |-> IF neg THEN 0 - un ELSE un, err |-> NoErr]

(***************************************************************************)
(* dns.StringToType: the library's table from canonical (upper case) type  *)
(* names to type codes; the entries the model's inputs can hit.            *)
(***************************************************************************)
StringToType ==
    { << <<"A">>, 1 >>,
      << <<"N","S">>, 2 >>,
      << <<"C","N","A","M","E">>, 5 >>,
      << <<"M","X">>, 15 >>,
      << <<"T","X","T">>, 16 >>,
      << <<"A","A","A","A">>, 28 >>,
      << <<"A","N","Y">>, 255 >> }

InTypeTable(s) == \E e \in StringToType : e[1] = s
TypeOf(s) == (CHOOSE e \in StringToType : e[1] = s)[2]

stringToRRType(s) ==
    LET p == ParseInt(s, IntBitSize)
    IN  IF p.err = NoErr
        THEN IF MinRRType <= p.i /\ p.i <= MaxRRType
             THEN [rrType |-> p.i % Pow2(16), err |-> NoErr]
             ELSE [rrType |-> 0, err |-> errIntOutOfRange]
        ELSE IF InTypeTable(ToUpper(s))
             THEN [rrType |-> TypeOf(ToUpper(s)), err |-> NoErr]
             ELSE [rrType |-> 0, err |-> errUnknownType]

\* faulty variant of stringToBool: a present, empty value resolves to false
stringToBool_EmptyFalse(s) ==
    LET l == ToLower(s)
    IN  IF l \in { <<"1">>, <<"t","r","u","e">> }
        THEN [b |-> TRUE, err |-> NoErr]
        ELSE IF l \in { <<>>, <<"0">>, <<"f","a","l","s","e">> }
        THEN [b |-> FALSE, err |-> NoErr]
        ELSE [b |-> FALSE, err |-> errInvalidCD]

stringToBool(s) ==
    LET l == ToLower(s)
    IN  IF l \in { <<>>, <<"1">>, <<"t","r","u","e">> }
        THEN [b |-> TRUE, err |-> NoErr]
        ELSE IF l \in { <<"0">>, <<"f","a","l","s","e">> }
        THEN [b |-> FALSE, err |-> NoErr]
        ELSE [b |-> FALSE, err |-> errInvalidCD]

(***************************************************************************)
(* net.ParseCIDR.  The text is split at the first "/"; the address is      *)
(* parsed as dotted-decimal IPv4 or, failing that, as IPv6; the prefix     *)
(* length is an unsigned decimal of at most 8*len(address) bits.  The      *)
(* result is an IPNet [IP, Mask] with the address masked, 4 bytes long for *)
(* IPv4 and 16 bytes long for IPv6.  Nil(=<<>>) on error.                  *)
(***************************************************************************)
IndexOf(s, c) ==
    IF \E k \in 1..Len(s) : s[k] = c
    THEN CHOOSE k \in 1..Len(s) : s[k] = c /\ \A j \in 1..(k - 1) : s[j] # c
    ELSE 0

\* the fields of s between occurrences of the separator c
RECURSIVE Split(_, _)
Split(s, c) ==
    LET k == IndexOf(s, c)
    IN  IF k = 0 THEN <<s>>
        ELSE <<SubSeq(s, 1, k - 1)>> \o Split(SubSeq(s, k + 1, Len(s)), c)

\* one decimal field of a dotted-decimal address
IPv4FieldOK(f) ==
    /\ Len(f) \in 1..3
    /\ AllDigits(f)
    /\ (Len(f) > 1 => f[1] # "0")
    /\ DecVal(f) <= 255

parseIPv4(s) ==
    LET fs == Split(s, ".")
    IN  IF Len(fs) = 4 /\ \A k \in 1..4 : IPv4FieldOK(fs[k])
        THEN << [k \in 1..4 |-> DecVal(fs[k])] >>
        ELSE <<>>

\* parseIPv6 on the IPv6 literals the model's inputs use
IPv6Table ==
    { << <<":",":">>,
         <<0,0,0,0,0,0,0,0,0,0,0,0,0,0,0,0>> >>,
      << <<"f","e","8","0",":",":">>,
         <<254,128,0,0,0,0,0,0,0,0,0,0,0,0,0,0>> >>,
      << <<"2","0","0","1",":","d","b","8",":",":","1">>,
         <<32,1,13,184,0,0,0,0,0,0,0,0,0,0,0,1>> >>,
      << <<":",":","f","f","f","f",":","1",".","2",".","3",".","4">>,
         <<0,0,0,0,0,0,0,0,0,0,255,255,1,2,3,4>> >> }

parseIPv6(s) ==
    IF \E e \in IPv6Table : e[1] = s
    THEN << (CHOOSE e \in IPv6Table : e[1] = s)[2] >>
    ELSE <<>>

\* net.CIDRMask(ones, bits): bits/8 bytes, the first `ones` bits set
CIDRMask(ones, bits) ==
    [k \in 1..(bits \div 8) |->
        IF ones >= 8 * k THEN 255
        ELSE IF ones <= 8 * (k - 1) THEN 0
        ELSE 256 - Pow2(8 * k - ones)]

\* number of leading one bits of a byte of a canonical mask
ByteOnes(b) == CHOOSE n \in 0..8 : b = 256 - Pow2(8 - n)

\* IPMask.Size(): (ones, bits) of a canonical mask
RECURSIVE MaskOnes(_)
MaskOnes(m) ==
    IF Len(m) = 0 THEN 0 ELSE ByteOnes(m[1]) + MaskOnes(Tail(m))
MaskSize(m) == [ones |-> MaskOnes(m), bits |-> 8 * Len(m)]

\* IP.Mask(mask) for an address and a canonical mask of the same length
ApplyMask(ip, m) ==
    [k \in 1..Len(ip) |-> ip[k] - (ip[k] % Pow2(8 - ByteOnes(m[k])))]

ParseCIDR(s) ==
    LET i    == IndexOf(s, "/")
        addr == SubSeq(s, 1, i - 1)
        mask == SubSeq(s, i + 1, Len(s))
        v4   == parseIPv4(addr)
        ip   == IF v4 # <<>> THEN v4 ELSE parseIPv6(addr)
    IN  IF i = 0 \/ ip = <<>> THEN <<>>
        ELSE IF Len(mask) = 0 \/ ~AllDigits(mask) THEN <<>>
        ELSE IF DecVal(mask) > 8 * Len(ip[1]) THEN <<>>
        ELSE LET m == CIDRMask(DecVal(mask), 8 * Len(ip[1]))
             IN  << [IP |-> ApplyMask(ip[1], m), Mask |-> m] >>

\* IP.To4(): the IPv4 form of an address, or nil (<<>>)
To4(ip) ==
    IF Len(ip) = 4 THEN <<ip>>
    ELSE IF /\ Len(ip) = 16
            /\ \A k \in 1..10 : ip[k] = 0
            /\ ip[11] = 255 /\ ip[12] = 255
    THEN << SubSeq(ip, 13, 16) >>
    ELSE <<>>

(***************************************************************************)
(* parseQuery.  u is req.URL.Query(): a map from key to the list of the    *)
(* key's values.  Result: [q, err], q the query struct with clientSubnet   *)
(* nil (<<>>) or <<IPNet>>.                                                *)
(***************************************************************************)
EmptyMap == [k \in {} |-> <<>>]

\* "Simplify the values map"
SimplifyValues(u) ==
    [k \in DOMAIN u |-> IF Len(u[k]) > 0 THEN u[k][1] ELSE <<>>]

Has(vs, k) == k \in DOMAIN vs

\* faulty variant of nameRule: a name of MaxNameLen characters is too long
nameRule_OffByOne(vs, q) ==
    LET name == IF Has(vs, "name") THEN vs["name"] ELSE <<>>
        q1   == [q EXCEPT !.name = name]
    IN  IF ~Has(vs, "name") \/ name = <<>> THEN [q |-> q1, err |-> errEmptyName]
        ELSE IF Len(name) >= MaxNameLen THEN [q |-> q1, err |-> errNameTooLong]
        ELSE [q |-> q1, err |-> NoErr]

nameRule(vs, q) ==
    LET name == IF Has(vs, "name") THEN vs["name"] ELSE <<>>
        q1   == [q EXCEPT !.name = name]
    IN  IF ~Has(vs, "name") \/ name = <<>> THEN [q |-> q1, err |-> errEmptyName]
        ELSE IF Len(name) > MaxNameLen THEN [q |-> q1, err |-> errNameTooLong]
        ELSE [q |-> q1, err |-> NoErr]

typeRule(vs, q) ==
    IF Has(vs, "type")
    THEN LET t == stringToRRType(vs["type"])
         IN  [q |-> [q EXCEPT !.rrType = t.rrType], err |-> t.err]
    ELSE [q |-> q, err |-> NoErr]

cdRule(vs, q) ==
    IF Has(vs, "cd")
    THEN LET c == stringToBool(vs["cd"])
         IN  [q |-> [q EXCEPT !.cd = c.b], err |-> c.err]
    ELSE [q |-> q, err |-> NoErr]

subnetRule(vs, q) ==
    IF Has(vs, "edns_client_subnet")
    THEN LET n == ParseCIDR(vs["edns_client_subnet"])
         IN  [q   |-> [q EXCEPT !.clientSubnet = n],
              err |-> IF n = <<>> THEN errInvalidSubnet ELSE NoErr]
    ELSE [q |-> q, err |-> NoErr]

InitialQuery ==
    [name |-> <<>>, rrType |-> DefaultRRType, cd |-> FALSE, clientSubnet |-> <<>>]

\* faulty variant of parseQuery: the subnet is validated before the name
parseQuery_SubnetFirst(u) ==
    LET vs == SimplifyValues(u)
        s0 == subnetRule(vs, InitialQuery)
        s1 == IF s0.err # NoErr THEN s0 ELSE nameRule(vs, s0.q)
        s2 == IF s1.err # NoErr THEN s1 ELSE typeRule(vs, s1.q)
        s3 == IF s2.err # NoErr THEN s2 ELSE cdRule(vs, s2.q)
    IN  s3

parseQuery(u) ==
    LET vs == SimplifyValues(u)
        s1 == nameRule(vs, InitialQuery)
        s2 == IF s1.err # NoErr THEN s1 ELSE typeRule(vs, s1.q)
        s3 == IF s2.err # NoErr THEN s2 ELSE cdRule(vs, s2.q)
        s4 == IF s3.err # NoErr THEN s3 ELSE subnetRule(vs, s3.q)
    IN  s4

(***************************************************************************)
(* Inputs.  A parameter choice is <<>> (key absent) or <<values>> (key     *)
(* present with that list of values).                                      *)
(***************************************************************************)
Param(k, c) == IF c = <<>> THEN EmptyMap ELSE (k :> c[1])

MkURL(n, t, c, s, x) ==
    Param("name", n) @@ Param("type", t) @@ Param("cd", c)
        @@ Param("edns_client_subnet", s) @@ Param("Name", x)

One(v) == << <<v>> >>

NameLens ==
    {1, MaxNameLen - 1} \cup (MaxNameLen .. (MaxNameLen + ExtraNameLen))

NameChoices ==
    { <<>>, One(<<>>),
      << << <<"a",".","b">>, Rep("a", MaxNameLen + 1) >> >> }
        \cup { One(Rep("a", n)) : n \in NameLens }

TypeChoices ==
    { <<>>, One(<<>>), One(<<"0">>), One(<<"1">>), One(<<"0","1">>),
      One(<<"-","5">>), One(<<"+","7">>), One(<<"-","4","0","0","0","0">>),
      One(<<"1","2","x">>), One(<<"m","x">>), One(<<"M","x">>),
      One(<<"A","A","A","A">>), One(<<"a">>), One(<<"b","o","g","u","s">>),
      << << <<"1","6">>, <<"b","o","g","u","s">> >> >> }

CdChoices ==
    { <<>>, One(<<>>), One(<<"1">>), One(<<"0">>),
      One(<<"t","r","u","e">>), One(<<"T","R","U","E">>), One(<<"t","R","u","E">>),
      One(<<"f","a","l","s","e">>), One(<<"F","a","l","s","e">>),
      One(<<"b","a","n","a","n","a">>), One(<<"2">>), One(<<"0","1">>),
      One(<<"y","e","s">>) }

SubnetChoices ==
    { <<>>, One(<<>>),
      One(<<"1",".","2",".","3",".","0","/","2","4">>),
      One(<<"1","0",".","1",".","2",".","3","/","8">>),
      One(<<"1",".","2",".","3",".","4","/","3","2">>),
      One(<<"f","e","8","0",":",":","/","6","4">>),
      One(<<"2","0","0","1",":","d","b","8",":",":","1","/","1","2","8">>),
      One(<<":",":","f","f","f","f",":","1",".","2",".","3",".","4","/","1","2","0">>),
      One(<<"1",".","2",".","3",".","0","/","3","3">>),
      One(<<"1",".","2",".","3",".","0">>),
      One(<<"b","a","d","/","2","4">>) }

ExtraChoices == { <<>>, One(<<>>) }

\* type=<n> for every n up to MaxProbe, all other parameters fixed
ProbeURLs ==
    { MkURL(One(<<"a">>), One(Itoa(n)), <<>>, <<>>, <<>>) : n \in 0..MaxProbe }

ParseURLs ==
    ProbeURLs \cup
    { MkURL(n, t, c, s, x) : n \in NameChoices, t \in TypeChoices,
                             c \in CdChoices, s \in SubnetChoices,
                             x \in ExtraChoices }

(***************************************************************************)
(* Building the DNS request (Resolve, after parseQuery).                   *)
(***************************************************************************)
\* dns.Fqdn: the name with a trailing dot
Fqdn(s) == IF Len(s) > 0 /\ s[Len(s)] = "." THEN s ELSE Append(s, ".")

\* the EDNS0 client-subnet option built from q.clientSubnet
SubnetOption(ipnet) ==
    LET ipv4 == To4(ipnet.IP)
        size == MaskSize(ipnet.Mask)
    IN  [Code          |-> EDNS0SUBNET,
         Family        |-> IF ipv4 # <<>> THEN FamilyIPv4 ELSE FamilyIPv6,
         Address       |-> IF ipv4 # <<>> THEN ipv4[1] ELSE ipnet.IP,
         SourceScope   |-> 0,
         SourceNetmask |-> size.bits % Pow2(8)]

\* r after SetQuestion and the optional OPT record
BuildMsg(q) ==
    [CheckingDisabled |-> q.cd,
     RecursionDesired |-> TRUE,
     Question |-> << [Name |-> Fqdn(q.name), Qtype |-> q.rrType,
                      Qclass |-> ClassINET] >>,
     Extra    |-> IF q.clientSubnet # <<>>
                  THEN << [Hdr    |-> [Name |-> <<".">>, Rrtype |-> TypeOPT],
                           Option |-> << SubnetOption(q.clientSubnet[1]) >>] >>
                  ELSE <<>>]

(***************************************************************************)
(* Mapping the reply to the JSON response (Resolve, after dns.Exchange).   *)
(***************************************************************************)
TypeString(t) ==
    IF \E e \in StringToType : e[2] = t
    THEN (CHOOSE e \in StringToType : e[2] = t)[1]
    ELSE <<"T","Y","P","E">> \o Itoa(t)

\* RR_Header.String(): name, ttl, class and type, each followed by a tab
HdrString(h) ==
    h.Name \o <<"\t">> \o Itoa(h.Ttl) \o <<"\t">> \o <<"I","N">> \o <<"\t">>
        \o TypeString(h.Rrtype) \o <<"\t">>

\* RR.String(): the header text followed by the type-specific rendering
RRString(a) == HdrString(a.Hdr) \o a.Rdata

MapQuestion(qq) ==
    [Name |-> qq.Name, Type |-> qq.Qtype, TTL |-> 0, Data |-> <<>>]

MapAnswer(a) ==
    LET hs == HdrString(a.Hdr)
        s  == RRString(a)
    IN  [Name |-> a.Hdr.Name, Type |-> a.Hdr.Rrtype, TTL |-> a.Hdr.Ttl,
         Data |-> SubSeq(s, Len(hs) + 1, Len(s))]

\* faulty variant of MapReply: the last answer is left out
MapReply_DropLast(m) ==
    [Status |-> m.Rcode, TC |-> m.Truncated, RD |-> m.RecursionDesired,
     RA |-> m.RecursionAvailable, AD |-> m.AuthenticatedData,
     CD |-> m.CheckingDisabled,
     Question |-> [k \in 1..Len(m.Question) |-> MapQuestion(m.Question[k])],
     Answer   |-> [k \in 1..(Len(m.Answer) - 1) |-> MapAnswer(m.Answer[k])]]

MapReply(m) ==
    [Status |-> m.Rcode, TC |-> m.Truncated, RD |-> m.RecursionDesired,
     RA |-> m.RecursionAvailable, AD |-> m.AuthenticatedData,
     CD |-> m.CheckingDisabled,
     Question |-> [k \in 1..Len(m.Question) |-> MapQuestion(m.Question[k])],
     Answer   |-> [k \in 1..Len(m.Answer) |-> MapAnswer(m.Answer[k])]]

(***************************************************************************)
(* The http.ResponseWriter: the status lines and the body chunks written.  *)
(***************************************************************************)
NewWriter == [header |-> <<>>, body |-> <<>>]

\* http.Error(w, msg, code)
HttpError(rw, msg, code) ==
    [header |-> Append(rw.header, code),
     body   |-> Append(rw.body, [text |-> msg, json |-> <<>>])]

\* w.Write(buf), buf the JSON encoding of jr; the first write sends 200
WriteJSON(rw, jr) ==
    [header |-> IF rw.header = <<>> THEN <<StatusOK>> ELSE rw.header,
     body   |-> Append(rw.body, [text |-> <<>>, json |-> <<jr>>])]

\* faulty variant of Reply: the nil reply is tested before the error
Reply_NilFirst(rw, fu, bad) ==
    IF fu.reply = <<>>
    THEN HttpError(rw, <<"no response from upstream">>, StatusRequestTimeout)
    ELSE IF fu.err # NoErr
    THEN HttpError(rw, <<"dns exchange error: ", fu.err>>, StatusFailedDependency)
    ELSE LET jr == MapReply(fu.reply[1])
         IN  IF jr \in bad
             THEN HttpError(rw, <<"failed to marshal: ", "json error">>,
                            StatusInternalServerError)
             ELSE WriteJSON(rw, jr)

\* what Resolve writes once dns.Exchange has returned fu = [reply, err]
Reply(rw, fu, bad) ==
    IF fu.err # NoErr
    THEN HttpError(rw, <<"dns exchange error: ", fu.err>>, StatusFailedDependency)
    ELSE IF fu.reply = <<>>
    THEN HttpError(rw, <<"no response from upstream">>, StatusRequestTimeout)
    ELSE LET jr == MapReply(fu.reply[1])
         IN  IF jr \in bad
             THEN HttpError(rw, <<"failed to marshal: ", "json error">>,
                            StatusInternalServerError)
             ELSE WriteJSON(rw, jr)

(***************************************************************************)
(* Upstream replies and outcomes of dns.Exchange.                          *)
(***************************************************************************)
ExampleCom == <<"e","x","a","m","p","l","e",".","c","o","m",".">>

RRSet ==
    { [Hdr   |-> [Name |-> ExampleCom, Rrtype |-> 1, Ttl |-> 300],
       Rdata |-> <<"1",".","2",".","3",".","4">>],
      [Hdr   |-> [Name |-> <<"m",".">>, Rrtype |-> 15, Ttl |-> 7],
       Rdata |-> <<"1","0"," ","x",".">>] }

RECURSIVE SeqsUpTo(_, _)
SeqsUpTo(S, n) ==
    IF n = 0 THEN { <<>> }
    ELSE LET shorter == SeqsUpTo(S, n - 1)
         IN  shorter \cup { Append(s, x) : s \in shorter, x \in S }

QuestionChoices ==
    { <<>>,
      << [Name |-> ExampleCom, Qtype |-> 1, Qclass |-> ClassINET] >>,
      << [Name |-> <<"m",".">>, Qtype |-> 15, Qclass |-> ClassINET],
         [Name |-> ExampleCom, Qtype |-> 28, Qclass |-> ClassINET] >> }

HeaderChoices ==
    { [Rcode |-> 0, Truncated |-> FALSE, RecursionDesired |-> TRUE,
       RecursionAvailable |-> FALSE, AuthenticatedData |-> TRUE,
       CheckingDisabled |-> FALSE],
      [Rcode |-> 3, Truncated |-> TRUE, RecursionDesired |-> FALSE,
       RecursionAvailable |-> TRUE, AuthenticatedData |-> FALSE,
       CheckingDisabled |-> TRUE] }

MkReply(h, qs, as) ==
    [Rcode |-> h.Rcode, Truncated |-> h.Truncated,
     RecursionDesired |-> h.RecursionDesired,
     RecursionAvailable |-> h.RecursionAvailable,
     AuthenticatedData |-> h.AuthenticatedData,
     CheckingDisabled |-> h.CheckingDisabled,
     Question |-> qs, Answer |-> as]

Replies ==
    { MkReply(h, qs, as) : h \in HeaderChoices, qs \in QuestionChoices,
                           as \in SeqsUpTo(RRSet, MaxAns) }

NoReply == [reply |-> <<>>, err |-> NoErr]

\* the replies of the concurrent specification
FewReplies ==
    { m \in Replies : Len(m.Question) = 1 /\ Len(m.Answer) = 1
                      /\ m.Answer[1].Hdr.Rrtype = 1 }

\* dns.Exchange returns (reply, err): an error without or with a reply,
\* neither, or a reply
OutcomesOf(R) ==
    { [reply |-> <<>>, err |-> "i/o timeout"], NoReply }
        \cup { [reply |-> <<m>>, err |-> "bad rdata"] : m \in FewReplies }
        \cup { [reply |-> <<m>>, err |-> NoErr] : m \in R }

Outcomes == OutcomesOf(Replies)
FewOutcomes == OutcomesOf(FewReplies)

\* the requests of the sequential specification
URLs ==
    { MkURL(n, t, c, s, <<>>) :
        n \in { <<>>, One(<<"a",".","b">>), One(ExampleCom) },
        t \in { <<>>, One(<<"m","x">>), One(<<"b","o","g","u","s">>) },
        c \in { <<>>, One(<<>>), One(<<"1">>), One(<<"T","r","u","e">>),
                One(<<"0">>), One(<<"F","A","L","S","E">>),
                One(<<"b","a","n","a","n","a">>) },
        s \in { <<>>,
                One(<<"1",".","2",".","3",".","0","/","2","4">>),
                One(<<"1",".","2",".","3",".","4","/","3","2">>),
                One(<<"f","e","8","0",":",":","/","6","4">>),
                One(<<":",":","f","f","f","f",":","1",".","2",".","3",".","4",
                      "/","1","2","0">>),
                One(<<"b","a","d","/","2","4">>) } }

\* the requests of the concurrent specification
FewURLs ==
    { MkURL(<<>>, <<>>, <<>>, <<>>, <<>>),
      MkURL(One(<<"a",".","b">>), <<>>, <<>>, <<>>, <<>>),
      MkURL(One(ExampleCom), One(<<"m","x">>), One(<<"1">>),
            One(<<"1",".","2",".","3",".","0","/","2","4">>), <<>>) }

\* the responses json.Marshal may be unable to encode
BadJSONChoices ==
    { {} } \cup { { MapReply(m) } : m \in FewReplies }

(***************************************************************************)
(* The handler.  Each request runs Resolve in a goroutine of its own; it   *)
(* blocks in dns.Exchange.                                                 *)
(***************************************************************************)
Reqs == 1..NumReq

\* faulty variant of StoreLocal: the variable is shared by all invocations
StoreShared(f, i, v) == [j \in DOMAIN f |-> v]
\* an assignment to a local variable of request i's invocation of Resolve
StoreLocal(f, i, v) == [f EXCEPT ![i] = v]

\* faulty variant of ParseFailed: the parse error is ignored
ParseFailed_Never(pq) == FALSE
\* the early return after parseQuery
ParseFailed(pq) == pq.err # NoErr

Init ==
    /\ pc = [i \in Reqs |-> "idle"]
    /\ url = [i \in Reqs |-> EmptyMap]
    /\ r = [i \in Reqs |-> <<>>]
    /\ fromUp = [i \in Reqs |-> NoReply]
    /\ net = [i \in Reqs |-> NoReply]
    /\ w = [i \in Reqs |-> NewWriter]
    /\ exchanges = [i \in Reqs |-> 0]
    /\ badJSON \in BadJSONChoices
    /\ pu = EmptyMap
    /\ pres = <<>>

\* Resolve from its entry to the call of dns.Exchange
Begin(i, U) ==
    /\ pc[i] = "idle"
    /\ \E u \in U :
        LET pq == parseQuery(u)
        IN  /\ url' = [url EXCEPT ![i] = u]
            /\ IF ParseFailed(pq)
               THEN /\ w' = [w EXCEPT ![i] = HttpError(w[i], <<pq.err>>, StatusBadRequest)]
                    /\ pc' = [pc EXCEPT ![i] = "done"]
                    /\ UNCHANGED <<r, exchanges>>
               ELSE /\ r' = StoreLocal(r, i, <<BuildMsg(pq.q)>>)
                    /\ exchanges' = [exchanges EXCEPT ![i] = @ + 1]
                    /\ pc' = [pc EXCEPT ![i] = "exchange"]
                    /\ UNCHANGED w
    /\ UNCHANGED <<fromUp, net, badJSON, pu, pres>>

\* dns.Exchange returns
ExchangeReturn(i, O) ==
    /\ pc[i] = "exchange"
    /\ \E o \in O :
        /\ net' = [net EXCEPT ![i] = o]
        /\ fromUp' = StoreLocal(fromUp, i, o)
    /\ pc' = [pc EXCEPT ![i] = "reply"]
    /\ UNCHANGED <<url, r, w, exchanges, badJSON, pu, pres>>

\* Resolve from the return of dns.Exchange to its end
Respond(i) ==
    /\ pc[i] = "reply"
    /\ w' = [w EXCEPT ![i] = Reply(w[i], fromUp[i], badJSON)]
    /\ pc' = [pc EXCEPT ![i] = "done"]
    /\ UNCHANGED <<url, r, fromUp, net, exchanges, badJSON, pu, pres>>

\* one request
Next ==
    \/ Begin(1, URLs)
    \/ ExchangeReturn(1, Outcomes)
    \/ Respond(1)

Spec == Init /\ [][Next]_vars

\* NumReq requests handled concurrently
ConcNext ==
    \E i \in Reqs :
        \/ Begin(i, FewURLs)
        \/ ExchangeReturn(i, FewOutcomes)
        \/ Respond(i)

ConcSpec == Init /\ [][ConcNext]_vars

(***************************************************************************)
(* parseQuery alone, on every query of ParseURLs.                          *)
(***************************************************************************)
ParseInit ==
    /\ pc = [i \in Reqs |-> "idle"]
    /\ url = [i \in Reqs |-> EmptyMap]
    /\ r = [i \in Reqs |-> <<>>]
    /\ fromUp = [i \in Reqs |-> NoReply]
    /\ net = [i \in Reqs |-> NoReply]
    /\ w = [i \in Reqs |-> NewWriter]
    /\ exchanges = [i \in Reqs |-> 0]
    /\ badJSON = {}
    /\ pu \in ParseURLs
    /\ pres = <<>>

Parse ==
    /\ pres = <<>>
    /\ pres' = <<parseQuery(pu)>>
    /\ UNCHANGED <<pc, url, r, fromUp, net, w, exchanges, badJSON, pu>>

ParseNext == Parse

ParseSpec == ParseInit /\ [][ParseNext]_vars

(***************************************************************************)
(* Properties.                                                             *)
(***************************************************************************)
Started(i) == pc[i] # "idle"
Done(i) == pc[i] = "done"

\* value of key k in query u: the first value, "" for an empty list
ValueOf(u, k) == IF Len(u[k]) > 0 THEN u[k][1] ELSE <<>>

\* the error of each validation rule taken alone
NameError(u) ==
    IF "name" \notin DOMAIN u \/ ValueOf(u, "name") = <<>> THEN errEmptyName
    ELSE IF Len(ValueOf(u, "name")) > 253 THEN errNameTooLong
    ELSE NoErr
TypeError(u) ==
    IF "type" \in DOMAIN u THEN stringToRRType(ValueOf(u, "type")).err ELSE NoErr
CdError(u) ==
    IF "cd" \in DOMAIN u THEN stringToBool(ValueOf(u, "cd")).err ELSE NoErr
SubnetError(u) ==
    IF "edns_client_subnet" \in DOMAIN u
          /\ ParseCIDR(ValueOf(u, "edns_client_subnet")) = <<>>
    THEN errInvalidSubnet ELSE NoErr

FirstError(u) ==
    LET es == <<NameError(u), TypeError(u), CdError(u), SubnetError(u)>>
    IN  IF \A k \in 1..4 : es[k] = NoErr THEN NoErr
        ELSE es[CHOOSE k \in 1..4 :
                    es[k] # NoErr /\ \A j \in 1..(k - 1) : es[j] = NoErr]

\* the status the stages of Resolve give, the first failing stage deciding
StageStatus(u, o, bad) ==
    IF parseQuery(u).err # NoErr THEN 400
    ELSE IF o.err # NoErr THEN 424
    ELSE IF o.reply = <<>> THEN 408
    ELSE IF MapReply(o.reply[1]) \in bad THEN 500
    ELSE 200

\* C1: every handled request ends with exactly one outcome, the one of the
\* first failing stage (400 with the parse error's text, 424, 408, 500),
\* else 200 with the JSON body; a JSON body goes with status 200 only, and
\* nothing is written before the request ends.
C1_OneOutcome ==
    \A i \in Reqs :
        IF Done(i)
        THEN /\ w[i].header = <<StageStatus(url[i], net[i], badJSON)>>
             /\ Len(w[i].body) = 1
             /\ (w[i].body[1].json # <<>>) <=> (w[i].header = <<200>>)
             /\ (w[i].header # <<200>>) => w[i].body[1].text # <<>>
             /\ (w[i].header = <<400>>) =>
                    w[i].body[1].text = <<parseQuery(url[i]).err>>
        ELSE w[i] = NewWriter

\* a request answered 424 although the exchange also returned a reply
C1_Witness ==
    /\ Done(1)
    /\ w[1].header = <<424>>
    /\ net[1].reply # <<>>

\* C2: at most one exchange per request; exactly one once a valid query has
\* been parsed, whatever the exchange returns; none for an invalid query,
\* which is answered 400 with no DNS request built.
C2_OneExchange ==
    \A i \in Reqs :
        /\ exchanges[i] <= 1
        /\ ~Started(i) => exchanges[i] = 0
        /\ Started(i) =>
               IF parseQuery(url[i]).err = NoErr
               THEN exchanges[i] = 1
               ELSE /\ exchanges[i] = 0
                    /\ r[i] = <<>>
                    /\ Done(i)
                    /\ w[i].header = <<400>>

\* a finished request whose single exchange returned an error
C2_Witness ==
    /\ Done(1)
    /\ net[1].err # NoErr
    /\ exchanges[1] = 1
    /\ w[1].header = <<424>>

\* whether parseQuery has run in the parser specification, and its result
Parsed == pres # <<>>
NameRulePasses(u) == NameError(u) = NoErr

\* v is the base-10 text of an integer >= 0, without sign or leading zeros
IsDecimal(v) == Len(v) > 0 /\ AllDigits(v) /\ v = Itoa(DecVal(v))

\* v is an optional sign followed by one or more decimal digits
IsIntegerText(v) ==
    LET body == IF Len(v) > 0 /\ v[1] \in {"+", "-"} THEN SubSeq(v, 2, Len(v)) ELSE v
    IN  Len(body) > 0 /\ AllDigits(body)

IntegerValue(v) ==
    IF v[1] = "-" THEN 0 - DecVal(SubSeq(v, 2, Len(v)))
    ELSE IF v[1] = "+" THEN DecVal(SubSeq(v, 2, Len(v)))
    ELSE DecVal(v)

\* C3: for every n in [1, 65535], type=<base-10 text of n> is accepted with
\* record-type code n (the name rule passing, so that the type is looked at).
C3_NumericTypeAccepted ==
    (/\ Parsed
     /\ NameRulePasses(pu)
     /\ "type" \in DOMAIN pu
     /\ IsDecimal(ValueOf(pu, "type"))
     /\ DecVal(ValueOf(pu, "type")) \in 1..65535)
    => /\ pres[1].err \notin {errIntOutOfRange, errUnknownType}
       /\ pres[1].q.rrType = DecVal(ValueOf(pu, "type"))

\* C4: an integer type outside [1, 65535] is rejected as int-out-of-range,
\* never as an unknown type.
C4_OutOfRangeRejected ==
    (/\ Parsed
     /\ NameRulePasses(pu)
     /\ "type" \in DOMAIN pu
     /\ IsIntegerText(ValueOf(pu, "type"))
     /\ IntegerValue(ValueOf(pu, "type")) \notin 1..65535)
    => pres[1].err = errIntOutOfRange

\* the prefix length written in a CIDR text
PrefixLen(s) == DecVal(SubSeq(s, IndexOf(s, "/") + 1, Len(s)))

\* C5: a request built from a query with edns_client_subnet = address/p
\* carries exactly one client-subnet option, of family 1 for an address with
\* an IPv4 form and 2 otherwise, source netmask p and scope 0; a request
\* built from a query without the parameter carries none.
C5_SubnetOption ==
    \A i \in Reqs :
        r[i] # <<>> =>
            IF "edns_client_subnet" \in DOMAIN url[i]
            THEN LET s   == ValueOf(url[i], "edns_client_subnet")
                     net4 == To4(ParseCIDR(s)[1].IP)
                     x   == r[i][1].Extra
                 IN  /\ Len(x) = 1
                     /\ Len(x[1].Option) = 1
                     /\ x[1].Option[1].Family = (IF net4 # <<>> THEN 1 ELSE 2)
                     /\ x[1].Option[1].SourceNetmask = PrefixLen(s)
                     /\ x[1].Option[1].SourceScope = 0
            ELSE r[i][1].Extra = <<>>

\* the keys parseQuery looks at
Recognized == {"name", "type", "cd", "edns_client_subnet"}
Restrict(u, K) == [k \in (DOMAIN u) \cap K |-> u[k]]

\* C6: parseQuery returns the error of the first failing rule in the order
\* name, type, cd, edns_client_subnet, succeeds only if every rule passes,
\* and returns the same with the unrecognized keys removed.
C6_FirstFailingRule ==
    Parsed =>
        /\ pres[1].err = FirstError(pu)
        /\ pres[1] = parseQuery(Restrict(pu, Recognized))

\* a query whose type, cd and subnet are all invalid, and that holds an
\* unrecognized key: the type's error is returned
C6_Witness ==
    /\ Parsed
    /\ NameError(pu) = NoErr
    /\ TypeError(pu) = errUnknownType
    /\ CdError(pu) # NoErr
    /\ SubnetError(pu) # NoErr
    /\ "Name" \in DOMAIN pu
    /\ pres[1].err = errUnknownType

\* s is word in some letter case (word in lower case)
IsCaseVariant(s, word) ==
    /\ Len(s) = Len(word)
    /\ \A k \in 1..Len(s) : s[k] = word[k] \/ s[k] = ToUpperCh(word[k])

\* the boolean resolution of cd: "true", "false" or "invalid"
CdMeaning(u) ==
    IF "cd" \notin DOMAIN u THEN "false"
    ELSE LET v == ValueOf(u, "cd")
         IN  IF v = <<>> \/ v = <<"1">> \/ IsCaseVariant(v, <<"t","r","u","e">>)
             THEN "true"
             ELSE IF v = <<"0">> \/ IsCaseVariant(v, <<"f","a","l","s","e">>)
             THEN "false"
             ELSE "invalid"

\* C7: with the name and type rules passing, an invalid cd ends the request
\* with 400 and the invalid-cd text and no DNS request; otherwise the DNS
\* request built carries the resolved value as its checking-disabled bit.
C7_CheckingDisabled ==
    \A i \in Reqs :
        (Started(i) /\ NameError(url[i]) = NoErr /\ TypeError(url[i]) = NoErr) =>
            IF CdMeaning(url[i]) = "invalid"
            THEN /\ r[i] = <<>>
                 /\ Done(i)
                 /\ w[i].header = <<400>>
                 /\ w[i].body[1].text = <<errInvalidCD>>
            ELSE /\ (SubnetError(url[i]) = NoErr) = (r[i] # <<>>)
                 /\ r[i] # <<>> =>
                        r[i][1].CheckingDisabled = (CdMeaning(url[i]) = "true")

\* a request with cd present and empty, sent upstream with the bit set
C7_Witness ==
    /\ pc[1] = "exchange"
    /\ "cd" \in DOMAIN url[1]
    /\ ValueOf(url[1], "cd") = <<>>
    /\ r[1][1].CheckingDisabled = TRUE

\* C8: a missing or empty name is rejected as empty-name; a non-empty name
\* is rejected as name-too-long exactly when it is longer than 253.
C8_NameLength ==
    Parsed =>
        IF "name" \notin DOMAIN pu \/ ValueOf(pu, "name") = <<>>
        THEN pres[1].err = errEmptyName
        ELSE /\ pres[1].err # errEmptyName
             /\ (pres[1].err = errNameTooLong) <=> (Len(ValueOf(pu, "name")) >= 254)
             /\ (Len(ValueOf(pu, "name")) <= 253) => pres[1].q.name = ValueOf(pu, "name")

\* a name of exactly 253 characters, accepted
C8_Witness ==
    /\ Parsed
    /\ "name" \in DOMAIN pu
    /\ Len(ValueOf(pu, "name")) = 253
    /\ pres[1].err = NoErr

\* C9: a request answered 200 carries the mapping of its reply: status and
\* flags copied, questions and answers of the same length and order, names,
\* types and TTLs copied; a reply without error is answered 200 unless the
\* encoder fails.
C9_ReplyMapped ==
    \A i \in Reqs :
        (Done(i) /\ net[i].err = NoErr /\ net[i].reply # <<>>
                 /\ parseQuery(url[i]).err = NoErr) =>
            LET m == net[i].reply[1]
            IN  IF w[i].header = <<200>>
                THEN LET jr == w[i].body[1].json[1]
                     IN  /\ jr.Status = m.Rcode
                         /\ jr.TC = m.Truncated
                         /\ jr.RD = m.RecursionDesired
                         /\ jr.RA = m.RecursionAvailable
                         /\ jr.AD = m.AuthenticatedData
                         /\ jr.CD = m.CheckingDisabled
                         /\ Len(jr.Question) = Len(m.Question)
                         /\ \A k \in 1..Len(m.Question) :
                                /\ jr.Question[k].Name = m.Question[k].Name
                                /\ jr.Question[k].Type = m.Question[k].Qtype
                         /\ Len(jr.Answer) = Len(m.Answer)
                         /\ \A k \in 1..Len(m.Answer) :
                                /\ jr.Answer[k].Name = m.Answer[k].Hdr.Name
                                /\ jr.Answer[k].Type = m.Answer[k].Hdr.Rrtype
                                /\ jr.Answer[k].TTL = m.Answer[k].Hdr.Ttl
                ELSE w[i].header = <<500>> /\ badJSON # {}

\* a 200 response mapping two questions and two different answers
C9_Witness ==
    /\ Done(1)
    /\ w[1].header = <<200>>
    /\ Len(net[1].reply[1].Question) = 2
    /\ Len(net[1].reply[1].Answer) = 2
    /\ net[1].reply[1].Answer[1] # net[1].reply[1].Answer[2]

\* what Resolve, run alone, writes for query u and exchange outcome o
Alone(u, o, bad) ==
    IF parseQuery(u).err # NoErr
    THEN HttpError(NewWriter, <<parseQuery(u).err>>, 400)
    ELSE Reply(NewWriter, o, bad)

\* C10: in every interleaving, the locals of each invocation hold what its
\* own query and its own exchange gave, its response is the one the request
\* gets when run alone, and two requests with the same query and the same
\* upstream outcome get the same response.
C10_NoInterference ==
    /\ \A i \in Reqs :
        /\ ~Started(i) => (r[i] = <<>> /\ fromUp[i] = NoReply /\ w[i] = NewWriter)
        /\ r[i] # <<>> => r[i] = <<BuildMsg(parseQuery(url[i]).q)>>
        /\ fromUp[i] = net[i]
        /\ Done(i) => w[i] = Alone(url[i], net[i], badJSON)
    /\ \A i, j \in Reqs :
        (Done(i) /\ Done(j) /\ url[i] = url[j] /\ net[i] = net[j]) => w[i] = w[j]

\* request 1 answered 200 while request 2, with the same query, is in flight
\* holding a different reply of its own
C10_Witness ==
    /\ Done(1)
    /\ pc[2] = "reply"
    /\ url[1] = url[2]
    /\ net[1] # net[2]
    /\ net[2].reply # <<>>
    /\ w[1].header = <<200>>

====
